---------------------------- MODULE Spec2Model ----------------------------
(***************************************************************************)
(* The consultation-booking pipeline of EasyGo Advisor: the client form,   *)
(* its validator and its submit handler (src/src/App.js), the handler of   *)
(* POST /api/book-consultation (src/server/index.js) and the record store  *)
(* behind it (src/server/bookingService.js, src/server/Booking.js).        *)
(*                                                                         *)
(* A JavaScript string is a sequence of one-character strings, so that     *)
(* trim, toLowerCase and the regular expressions are computed character by *)
(* character.  A JavaScript value is a record [t, v]: t is its type tag    *)
(* and v its characters (empty for undefined).                             *)
(***************************************************************************)
EXTENDS Integers, Sequences, FiniteSets, TLC

-----------------------------------------------------------------------------
(* Characters and strings *)

UpperChars == <<"A", "B", "C", "D", "E", "F", "G", "H", "I", "J", "K", "L", "M",
                "N", "O", "P", "Q", "R", "S", "T", "U", "V", "W", "X", "Y", "Z">>

LowerChars == <<"a", "b", "c", "d", "e", "f", "g", "h", "i", "j", "k", "l", "m",
                "n", "o", "p", "q", "r", "s", "t", "u", "v", "w", "x", "y", "z">>

DigitChars == <<"0", "1", "2", "3", "4", "5", "6", "7", "8", "9">>

Range(s) == {s[i] : i \in DOMAIN s}

\* \s of a JavaScript regular expression, and what String.prototype.trim strips
WhiteSpace == {" ", "\t", "\n", "\r", "\f"}

IsUpper(c) == c \in Range(UpperChars)

IsLetter(c) == c \in Range(UpperChars) \cup Range(LowerChars)

IsDigit(c) == c \in Range(DigitChars)

DigitVal(c) == (CHOOSE i \in DOMAIN DigitChars : DigitChars[i] = c) - 1

LowerOf(c) ==
    IF IsUpper(c) THEN LowerChars[CHOOSE i \in DOMAIN UpperChars : UpperChars[i] = c]
    ELSE c

\* String.prototype.toLowerCase
ToLowerCase(s) == [i \in DOMAIN s |-> LowerOf(s[i])]

\* String.prototype.trim: the characters between the first and the last
\* character that is not white space
Trim(s) ==
    LET keep == {i \in DOMAIN s : s[i] \notin WhiteSpace}
    IN  IF keep = {} THEN <<>>
        ELSE LET lo == CHOOSE i \in keep : \A j \in keep : i <= j
                 hi == CHOOSE i \in keep : \A j \in keep : j <= i
             IN  SubSeq(s, lo, hi)

\* n copies of the character c
Rep(c, n) == [i \in 1..n |-> c]

-----------------------------------------------------------------------------
(* JavaScript values *)

Str(s) == [t |-> "string", v |-> s]

Undefined == [t |-> "undefined", v |-> <<>>]

\* ToBoolean: undefined and the empty string are falsy
\* a JavaScript number, v its decimal digits
Num(s) == [t |-> "number", v |-> s]

Truthy(x) == (x.t = "string" /\ x.v # <<>>) \/ (x.t = "number" /\ x.v # <<"0">>)

\* x has the methods of String.prototype (trim, toLowerCase)
IsString(x) == x.t = "string"

-----------------------------------------------------------------------------
(* Regular expressions of the validators *)

\* /^[^\s@]+@[^\s@]+\.[^\s@]+$/.test(s)
emailRegex(s) ==
    /\ \A i \in DOMAIN s : s[i] \notin WhiteSpace
    /\ Cardinality({i \in DOMAIN s : s[i] = "@"}) = 1
    /\ LET at == CHOOSE i \in DOMAIN s : s[i] = "@"
       IN  /\ at > 1
           /\ \E dot \in DOMAIN s : s[dot] = "." /\ dot > at + 1 /\ dot < Len(s)

\* /^[a-zA-Z\s]{2,50}$/.test(s)
nameRegex(s) ==
    /\ Len(s) >= 2
    /\ Len(s) <= 50
    /\ \A i \in DOMAIN s : IsLetter(s[i]) \/ s[i] \in WhiteSpace

\* /^[\d\s\-\(\)\+]{10,15}$/.test(s)
phoneRegex(s) ==
    /\ Len(s) >= 10
    /\ Len(s) <= 15
    /\ \A i \in DOMAIN s : IsDigit(s[i]) \/ s[i] \in WhiteSpace \cup {"-", "(", ")", "+"}

-----------------------------------------------------------------------------
(* Dates.  A Date is [valid, t]: t is its time value in minutes since the   *)
(* epoch (UTC); an Invalid Date has valid = FALSE.  A time zone is the      *)
(* number of minutes local time is ahead of UTC.                            *)

MinutesPerDay == 24 * 60

IsLeap(y) == (y % 4 = 0 /\ y % 100 # 0) \/ y % 400 = 0

DaysInMonth(y, m) ==
    IF m = 2 THEN (IF IsLeap(y) THEN 29 ELSE 28)
    ELSE IF m \in {4, 6, 9, 11} THEN 30 ELSE 31

\* days from 1970-01-01 to the civil date y-m-d (proleptic Gregorian)
DaysFromCivil(y, m, d) ==
    LET yy  == IF m <= 2 THEN y - 1 ELSE y
        era == yy \div 400
        yoe == yy - era * 400
        mp  == IF m > 2 THEN m - 3 ELSE m + 9
        doy == (153 * mp + 2) \div 5 + d - 1
        doe == yoe * 365 + yoe \div 4 - yoe \div 100 + doy
    IN  era * 146097 + doe - 719468

InvalidDate == [valid |-> FALSE, t |-> 0]

\* new Date(s) for a string s: the date-only form YYYY-MM-DD of a real
\* calendar day is midnight UTC of that day; a string that is no date at all
\* is an Invalid Date
ParseDate(s) ==
    IF /\ Len(s) = 10
       /\ s[5] = "-" /\ s[8] = "-"
       /\ \A i \in {1, 2, 3, 4, 6, 7, 9, 10} : IsDigit(s[i])
    THEN LET y == 1000 * DigitVal(s[1]) + 100 * DigitVal(s[2])
                  + 10 * DigitVal(s[3]) + DigitVal(s[4])
             m == 10 * DigitVal(s[6]) + DigitVal(s[7])
             d == 10 * DigitVal(s[9]) + DigitVal(s[10])
         IN  IF m \in 1..12 /\ d \in 1..DaysInMonth(y, m)
             THEN [valid |-> TRUE, t |-> DaysFromCivil(y, m, d) * MinutesPerDay]
             ELSE InvalidDate
    ELSE InvalidDate

\* the local calendar day (days since the epoch) of instant t in zone tz
LocalDay(t, tz) == (t + tz) \div MinutesPerDay

\* d.setHours(0, 0, 0, 0): local midnight of d's local calendar day
SetHoursZero(d, tz) ==
    IF d.valid THEN [valid |-> TRUE, t |-> LocalDay(d.t, tz) * MinutesPerDay - tz]
    ELSE d

\* the civil date of day number z (days since 1970-01-01)
CivilFromDays(z) ==
    LET z2  == z + 719468
        era == z2 \div 146097
        doe == z2 - era * 146097
        yoe == (doe - doe \div 1460 + doe \div 36524 - doe \div 146096) \div 365
        doy == doe - (365 * yoe + yoe \div 4 - yoe \div 100)
        mp  == (5 * doy + 2) \div 153
        d   == doy - (153 * mp + 2) \div 5 + 1
        m   == IF mp < 10 THEN mp + 3 ELSE mp - 9
        y   == yoe + era * 400 + (IF m <= 2 THEN 1 ELSE 0)
    IN  [y |-> y, m |-> m, d |-> d]

\* the decimal digit n as a character
DigitChar(n) == DigitChars[n + 1]

\* date.toISOString().split('T')[0]: the UTC calendar day of the instant, as
\* YYYY-MM-DD
ToISODate(date) ==
    LET c == CivilFromDays(date.t \div MinutesPerDay)
    IN  <<DigitChar(c.y \div 1000), DigitChar((c.y \div 100) % 10),
          DigitChar((c.y \div 10) % 10), DigitChar(c.y % 10), "-",
          DigitChar(c.m \div 10), DigitChar(c.m % 10), "-",
          DigitChar(c.d \div 10), DigitChar(c.d % 10)>>

\* the Date the picker hands to onChange for local calendar day `day`: the
\* start of that day in local time
StartOfLocalDay(day, tz) == [valid |-> TRUE, t |-> day * MinutesPerDay - tz]

\* a < b on Dates: false when either is an Invalid Date (NaN)
DateLess(a, b) == a.valid /\ b.valid /\ a.t < b.t

\* new Date() at instant now
DateNow(now) == [valid |-> TRUE, t |-> now]

-----------------------------------------------------------------------------
(* The client validator *)

FieldNames == {"name", "email", "phone", "state", "service", "preferredDate",
               "message", "englishLevel", "age", "education", "experience",
               "visaType"}

\* the error validateForm records for each field, "" when it records none
validateFormMessages(data, now, tz) ==
    [name |->
        IF Trim(data.name.v) = <<>> THEN "Name is required"
        ELSE IF ~nameRegex(Trim(data.name.v))
             THEN "Name must contain only letters and spaces (2-50 characters)"
             ELSE "",
     email |->
        IF Trim(data.email.v) = <<>> THEN "Email is required"
        ELSE IF ~emailRegex(Trim(data.email.v))
             THEN "Please enter a valid email address"
             ELSE "",
     phone |->
        IF Trim(data.phone.v) = <<>> THEN "Phone number is required"
        ELSE IF ~phoneRegex(Trim(data.phone.v))
             THEN "Please enter a valid phone number (10-15 digits)"
             ELSE "",
     state |-> "",
     service |-> IF ~Truthy(data.service) THEN "Please select a service" ELSE "",
     englishLevel |->
        IF ~Truthy(data.englishLevel) THEN "English level is required" ELSE "",
     age |-> IF ~Truthy(data.age) THEN "Age is required" ELSE "",
     education |-> IF ~Truthy(data.education) THEN "Education is required" ELSE "",
     experience |-> IF ~Truthy(data.experience) THEN "Experience is required" ELSE "",
     visaType |-> IF ~Truthy(data.visaType) THEN "Visa type is required" ELSE "",
     preferredDate |->
        IF ~Truthy(data.preferredDate) THEN "Please select a preferred date"
        ELSE LET selectedDate == SetHoursZero(ParseDate(data.preferredDate.v), tz)
                 today == SetHoursZero(DateNow(now), tz)
             IN  IF DateLess(selectedDate, today) THEN "Please select future date"
                 ELSE "",
     message |->
        IF Truthy(data.message) /\ Len(data.message.v) > 500
        THEN "Message must be less than 500 characters"
        ELSE ""]

\* validateForm(data): the error map, keyed by the fields that have an error
validateForm(data, now, tz) ==
    LET m == validateFormMessages(data, now, tz)
    IN  [f \in {g \in FieldNames : m[g] # ""} |-> m[f]]

-----------------------------------------------------------------------------
(* The server's validation (step 2 of the handler) *)

RequiredFields == {"name", "email", "phone", "state", "service", "preferredDate",
                   "englishLevel", "age", "education", "experience", "visaType"}

MissingRequired(fd) == \E f \in RequiredFields : ~Truthy(fd[f])

EmailFormatOk(fd) == emailRegex(Trim(fd.email.v))

DateIsInvalid(fd) == ~ParseDate(fd.preferredDate.v).valid

DateIsPast(fd, now, tz) ==
    DateLess(SetHoursZero(ParseDate(fd.preferredDate.v), tz),
             SetHoursZero(DateNow(now), tz))

MsgMissing == "Missing required fields. Please fill in all required fields."

MsgEmail == "Invalid email format."

MsgDateFormat == "Invalid date format."

MsgDatePast == "Cannot book a consultation in the past."

\* the handler without its past-date check
ServerValidate_NoPastCheck(fd, now, tz) ==
    IF MissingRequired(fd) THEN MsgMissing
    ELSE IF ~EmailFormatOk(fd) THEN MsgEmail
    ELSE IF DateIsInvalid(fd) THEN MsgDateFormat
    ELSE ""

\* the checks with the date checks ahead of the others
ServerValidate_DateFirst(fd, now, tz) ==
    IF Truthy(fd.preferredDate) /\ DateIsInvalid(fd) THEN MsgDateFormat
    ELSE IF Truthy(fd.preferredDate) /\ DateIsPast(fd, now, tz) THEN MsgDatePast
    ELSE IF MissingRequired(fd) THEN MsgMissing
    ELSE IF ~EmailFormatOk(fd) THEN MsgEmail
    ELSE ""

\* the handler without its email check, as in its earlier revision
ServerValidate_NoEmailCheck(fd, now, tz) ==
    IF MissingRequired(fd) THEN MsgMissing
    ELSE IF DateIsInvalid(fd) THEN MsgDateFormat
    ELSE IF DateIsPast(fd, now, tz) THEN MsgDatePast
    ELSE ""

\* the checks between decoding and the conflict query, in the handler's
\* order: the error of the first check that fails, "" when all pass
ServerValidate(fd, now, tz) ==
    IF MissingRequired(fd) THEN MsgMissing
    ELSE IF ~EmailFormatOk(fd) THEN MsgEmail
    ELSE IF DateIsInvalid(fd) THEN MsgDateFormat
    ELSE IF DateIsPast(fd, now, tz) THEN MsgDatePast
    ELSE ""

-----------------------------------------------------------------------------
(* The record store *)

\* new Booking(data): the schema keeps its own paths and drops the rest
BookingSchema(data) ==
    [name |-> data.name, email |-> data.email, phone |-> data.phone,
     service |-> data.service, preferredDate |-> data.preferredDate,
     message |-> data.message]

\* the paths the schema declares required: a missing or empty string fails save()
SchemaValid(doc) ==
    \A f \in {"name", "email", "phone", "service", "preferredDate"} : Truthy(doc[f])

NoDoc == [name |-> Undefined, email |-> Undefined, phone |-> Undefined,
          service |-> Undefined, preferredDate |-> Undefined, message |-> Undefined]

Matches(doc, query) ==
    doc.preferredDate = query.preferredDate /\ doc.email = query.email

\* Booking.findOne(query): the first stored document equal to the query on
\* every path of it, NoDoc (null) when there is none
findOneBooking(st, query) ==
    IF \E i \in DOMAIN st : Matches(st[i], query)
    THEN st[CHOOSE i \in DOMAIN st :
                /\ Matches(st[i], query)
                /\ \A j \in DOMAIN st : Matches(st[j], query) => i <= j]
    ELSE NoDoc

\* a save that overwrites the document already stored for (email, preferredDate)
insertBooking_Replace(st, data, dbErr) ==
    LET doc == BookingSchema(data)
    IN  IF ~SchemaValid(doc) THEN [ok |-> FALSE, err |-> "ValidationError", store |-> st]
        ELSE IF dbErr # "" THEN [ok |-> FALSE, err |-> dbErr, store |-> st]
        ELSE [ok |-> TRUE, err |-> "",
              store |-> IF \E i \in DOMAIN st : Matches(st[i], doc)
                        THEN Append([i \in DOMAIN st |->
                                        IF Matches(st[i], doc) THEN doc ELSE st[i]], doc)
                        ELSE Append(st, doc)]

\* a save that keeps one document per (email, preferredDate)
insertBooking_Upsert(st, data, dbErr) ==
    LET doc == BookingSchema(data)
    IN  IF ~SchemaValid(doc) THEN [ok |-> FALSE, err |-> "ValidationError", store |-> st]
        ELSE IF dbErr # "" THEN [ok |-> FALSE, err |-> dbErr, store |-> st]
        ELSE [ok |-> TRUE, err |-> "",
              store |-> IF \E i \in DOMAIN st : Matches(st[i], doc) THEN st
                        ELSE Append(st, doc)]

\* new Booking(data).save(): appends the document; throws (ok = FALSE, the
\* store untouched) a ValidationError when the document fails the schema,
\* and the database's error dbErr when the database fails (dbErr # "")
insertBooking(st, data, dbErr) ==
    LET doc == BookingSchema(data)
    IN  IF ~SchemaValid(doc) THEN [ok |-> FALSE, err |-> "ValidationError", store |-> st]
        ELSE IF dbErr # "" THEN [ok |-> FALSE, err |-> dbErr, store |-> st]
        ELSE [ok |-> TRUE, err |-> "", store |-> Append(st, doc)]

-----------------------------------------------------------------------------
(* The payload codec: JSON text and the AES envelope *)

\* the keys of formData in the order initialFormData declares them
FieldOrder ==
    <<"name", "email", "phone", "state", "service", "preferredDate", "message", "englishLevel", "age", "education", "experience", "visaType">>

FieldChars ==
    [name |-> <<"n", "a", "m", "e">>,
     email |-> <<"e", "m", "a", "i", "l">>,
     phone |-> <<"p", "h", "o", "n", "e">>,
     state |-> <<"s", "t", "a", "t", "e">>,
     service |-> <<"s", "e", "r", "v", "i", "c", "e">>,
     preferredDate |-> <<"p", "r", "e", "f", "e", "r", "r", "e", "d", "D", "a", "t", "e">>,
     message |-> <<"m", "e", "s", "s", "a", "g", "e">>,
     englishLevel |-> <<"e", "n", "g", "l", "i", "s", "h", "L", "e", "v", "e", "l">>,
     age |-> <<"a", "g", "e">>,
     education |-> <<"e", "d", "u", "c", "a", "t", "i", "o", "n">>,
     experience |-> <<"e", "x", "p", "e", "r", "i", "e", "n", "c", "e">>,
     visaType |-> <<"v", "i", "s", "a", "T", "y", "p", "e">>]

\* the object {}: every field undefined
EmptyObject == [f \in FieldNames |-> Undefined]

\* a string literal written without escapes
JSONEscape_Raw(s) == s

RECURSIVE JSONEscape(_)
\* the body of a JSON string literal: quote, backslash and control
\* characters escaped
JSONEscape(s) ==
    IF s = <<>> THEN <<>>
    ELSE LET c == Head(s)
             e == CASE c = "\"" -> <<"\\", "\"">>
                    [] c = "\\" -> <<"\\", "\\">>
                    [] c = "\n" -> <<"\\", "n">>
                    [] c = "\t" -> <<"\\", "t">>
                    [] c = "\r" -> <<"\\", "r">>
                    [] c = "\f" -> <<"\\", "f">>
                    [] OTHER -> <<c>>
         IN  e \o JSONEscape(Tail(s))

JSONMember(obj, f) ==
    <<"\"">> \o FieldChars[f] \o <<"\"", ":", "\"">> \o JSONEscape(obj[f].v) \o <<"\"">>

RECURSIVE JSONMembers(_, _, _)
JSONMembers(obj, i, first) ==
    IF i > Len(FieldOrder) THEN <<>>
    ELSE IF obj[FieldOrder[i]].t = "undefined" THEN JSONMembers(obj, i + 1, first)
    ELSE (IF first THEN <<>> ELSE <<",">>)
         \o JSONMember(obj, FieldOrder[i]) \o JSONMembers(obj, i + 1, FALSE)

\* JSON.stringify(obj) for an object of string fields; undefined fields are left out
JSONStringify(obj) == <<"{">> \o JSONMembers(obj, 1, TRUE) \o <<"}">>

ParseFail == [ok |-> FALSE, val |-> <<>>, next |-> 0]

RECURSIVE ReadString(_, _, _)
\* reads a string literal whose opening quote is before position i
ReadString(txt, i, acc) ==
    IF i > Len(txt) THEN ParseFail
    ELSE IF txt[i] = "\"" THEN [ok |-> TRUE, val |-> acc, next |-> i + 1]
    ELSE IF txt[i] = "\\"
         THEN IF i + 1 > Len(txt) THEN ParseFail
              ELSE LET c == txt[i + 1]
                   IN  IF c \in {"\"", "\\", "/"} THEN ReadString(txt, i + 2, Append(acc, c))
                       ELSE IF c = "n" THEN ReadString(txt, i + 2, Append(acc, "\n"))
                       ELSE IF c = "t" THEN ReadString(txt, i + 2, Append(acc, "\t"))
                       ELSE IF c = "r" THEN ReadString(txt, i + 2, Append(acc, "\r"))
                       ELSE IF c = "f" THEN ReadString(txt, i + 2, Append(acc, "\f"))
                       ELSE ParseFail
    ELSE IF txt[i] \in {"\n", "\t", "\r", "\f"} THEN ParseFail
    ELSE ReadString(txt, i + 1, Append(acc, txt[i]))

RECURSIVE ReadMembers(_, _, _)
\* reads "key":"value" members from position i up to the closing brace
ReadMembers(txt, i, obj) ==
    IF i > Len(txt) \/ txt[i] # "\"" THEN [ok |-> FALSE, obj |-> obj]
    ELSE LET k == ReadString(txt, i + 1, <<>>)
         IN  IF ~k.ok \/ k.next + 1 > Len(txt) \/ txt[k.next] # ":" \/ txt[k.next + 1] # "\""
             THEN [ok |-> FALSE, obj |-> obj]
             ELSE LET v == ReadString(txt, k.next + 2, <<>>)
                      o2 == IF \E f \in FieldNames : FieldChars[f] = k.val
                            THEN [obj EXCEPT ![CHOOSE f \in FieldNames : FieldChars[f] = k.val]
                                                 = Str(v.val)]
                            ELSE obj
                  IN  IF ~v.ok \/ v.next > Len(txt) THEN [ok |-> FALSE, obj |-> obj]
                      ELSE IF txt[v.next] = "}"
                           THEN [ok |-> v.next = Len(txt), obj |-> o2]
                      ELSE IF txt[v.next] = ","
                           THEN ReadMembers(txt, v.next + 1, o2)
                      ELSE [ok |-> FALSE, obj |-> obj]

\* JSON.parse(txt) for the texts of this model: an object of string members
\* parses to that object; any other text throws (ok = FALSE)
JSONParse(txt) ==
    IF Len(txt) < 2 \/ txt[1] # "{" THEN [ok |-> FALSE, obj |-> EmptyObject]
    ELSE IF txt[2] = "}" THEN [ok |-> Len(txt) = 2, obj |-> EmptyObject]
    ELSE ReadMembers(txt, 2, EmptyObject)

\* the fallback literal of the shared key, the same on both sides
DefaultKey == "EasyGoAdvisor@1974"

\* process.env.SECRET_KEY || "EasyGoAdvisor@1974", for envKey = "" when unset
SECRET_KEY(envKey) == IF envKey = "" THEN DefaultKey ELSE envKey

\* CryptoJS.AES.encrypt(text, key).toString(): an ideal cipher, the ciphertext
\* opens to text under key and to nothing readable under any other key
AESEncrypt(text, key) == [present |-> TRUE, key |-> key, text |-> text]

\* a request body without an `encrypted` property
NoCipher == [present |-> FALSE, key |-> "", text |-> <<>>]

-----------------------------------------------------------------------------
(* The handler of POST /api/book-consultation, as operators *)

\* the response body has the keys the handler writes: success, error,
\* warning, message; the handler writes no field-keyed error map, so the
\* fieldErrors of every response is the empty map
NoFieldErrors == [f \in {} |-> ""]

NoRes ==
    [status |-> 0, success |-> FALSE, error |-> "", warning |-> "", message |-> "",
     fieldErrors |-> NoFieldErrors]

\* res.status(status).json({ error })
ErrorRes(status, error) ==
    [status |-> status, success |-> FALSE, error |-> error, warning |-> "", message |-> "",
     fieldErrors |-> NoFieldErrors]

\* res.json({ success: true, warning, message })
SuccessRes(warning, message) ==
    [status |-> 200, success |-> TRUE, error |-> "", warning |-> warning, message |-> message,
     fieldErrors |-> NoFieldErrors]

MsgConfig == "Server configuration error: encryption key missing."

MsgDecrypt == "Invalid encrypted data. Decryption failed."

MsgFormat == "Invalid data format. Please try again."

MsgDbQuery == "Database error. Please try again later or contact support."

MsgConflict == "You have already booked a consultation for this date with this email."

MsgDbInsert == "Failed to save booking. Please try again later or contact support."

MsgMailDisabled == "Booking saved successfully. Email notifications are disabled."

MsgInternal == "Internal server error. Please try again later or contact support."

MsgMailWarning ==
    "Booking saved successfully, but email notifications failed. Please contact us directly if needed."

\* what CryptoJS.AES.decrypt(c, key).toString(Utf8) can do: under the key c
\* was made with it returns the plaintext; under another key the bytes are
\* noise, which toString either rejects (Malformed UTF-8 data) or turns into
\* the empty string
AESDecryptOutcomes(c, key) ==
    IF c.key = key THEN {[threw |-> FALSE, text |-> c.text]}
    ELSE {[threw |-> TRUE, text |-> <<>>], [threw |-> FALSE, text |-> <<>>]}

\* a decode step that goes on with whatever the parser had read
Decode_KeepPartial(body, key, d) ==
    IF body.encrypted.present
    THEN [res |-> NoRes, formData |-> JSONParse(d.text).obj, caught |-> ""]
    ELSE [res |-> NoRes, formData |-> body.data, caught |-> ""]

\* step 1: the payload of the request body, or the error response that ends
\* the request; d is the outcome of the decryption; caught is the error the
\* catch block received and logged, "" when none was thrown
Decode(body, key, d) ==
    IF body.encrypted.present
    THEN IF key = ""
         THEN [res |-> ErrorRes(500, MsgConfig), formData |-> EmptyObject, caught |-> ""]
         ELSE IF d.threw
              THEN [res |-> ErrorRes(400, MsgFormat), formData |-> EmptyObject,
                    caught |-> "Error: Malformed UTF-8 data"]
         ELSE IF d.text = <<>>
              THEN [res |-> ErrorRes(400, MsgDecrypt), formData |-> EmptyObject,
                    caught |-> ""]
         ELSE LET j == JSONParse(d.text)
              IN  IF j.ok THEN [res |-> NoRes, formData |-> j.obj, caught |-> ""]
                  ELSE [res |-> ErrorRes(400, MsgFormat), formData |-> EmptyObject,
                        caught |-> "SyntaxError"]
    ELSE [res |-> NoRes, formData |-> body.data, caught |-> ""]

\* the conflict query without toLowerCase
ConflictQuery_NoLowerCase(fd) ==
    [preferredDate |-> fd.preferredDate, email |-> fd.email]

\* the filter of the conflict query
ConflictQuery(fd) ==
    [preferredDate |-> fd.preferredDate, email |-> Str(ToLowerCase(fd.email.v))]

\* building the object handed to insertBooking throws, inside the try block
\* of the insert: trim is called on a value that is not a string
InsertDataThrows(fd) ==
    \/ \E f \in {"name", "phone", "state", "englishLevel", "age", "education",
                  "experience", "visaType"} : ~IsString(fd[f])
    \/ Truthy(fd.message) /\ ~IsString(fd.message)

\* the object handed to insertBooking
InsertData(fd) ==
    [name |-> Str(Trim(fd.name.v)),
     email |-> Str(Trim(ToLowerCase(fd.email.v))),
     phone |-> Str(Trim(fd.phone.v)),
     state |-> Str(Trim(fd.state.v)),
     service |-> fd.service,
     preferredDate |-> fd.preferredDate,
     message |-> IF Truthy(fd.message) THEN Str(Trim(fd.message.v)) ELSE Str(<<>>),
     englishLevel |-> Str(Trim(fd.englishLevel.v)),
     age |-> Str(Trim(fd.age.v)),
     education |-> Str(Trim(fd.education.v)),
     experience |-> Str(Trim(fd.experience.v)),
     visaType |-> Str(Trim(fd.visaType.v))]

\* a mail failure answered as a failure, as in the handler's earlier revision
NotifyFailedRes_AsError == ErrorRes(500, "Failed to send emails.")

\* the response once a mail send has thrown
NotifyFailedRes == SuccessRes(MsgMailWarning, "")

\* the response when the mail credentials are not configured
NotifyDisabledRes == SuccessRes("", MsgMailDisabled)

\* the admin alert sent to the sending account whatever ADMIN_EMAIL says
AdminAddress_SenderOnly(e) == Str(e.EMAIL_USER)

\* process.env.ADMIN_EMAIL || process.env.EMAIL_USER: the administrative mailbox
AdminAddress(e) == IF e.ADMIN_EMAIL # <<>> THEN Str(e.ADMIN_EMAIL) ELSE Str(e.EMAIL_USER)

\* a request not yet received
IdleHandler ==
    [pc |-> "idle", body |-> [encrypted |-> NoCipher, data |-> EmptyObject],
     formData |-> EmptyObject, res |-> NoRes,
     queries |-> 0, inserts |-> 0, mails |-> 0,
     seen |-> 0, docAt |-> 0, mailFailed |-> FALSE,
     caughtAt |-> "", caught |-> "", conflict |-> FALSE]

\* the handler from the arrival of the request to its first await: decode,
\* validate, then either respond or call findOneBooking
AfterReceive(hd, body, key, d, now, tz, storeLen) ==
    LET dec == Decode(body, key, d)
        msg == ServerValidate(dec.formData, now, tz)
        h0  == [hd EXCEPT !.body = body, !.seen = storeLen]
    IN  IF dec.res.status # 0
        THEN [h0 EXCEPT !.pc = "done", !.res = dec.res,
                        !.caughtAt = IF dec.caught # "" THEN "decode" ELSE "",
                        !.caught = dec.caught]
        ELSE IF ~MissingRequired(dec.formData) /\ ~IsString(dec.formData.email)
             THEN \* email.trim is not a function: thrown outside every try block
                  [h0 EXCEPT !.pc = "thrown", !.formData = dec.formData,
                             !.caught = "TypeError"]
        ELSE IF msg # ""
             THEN [h0 EXCEPT !.pc = "done", !.formData = dec.formData,
                             !.res = ErrorRes(400, msg)]
        ELSE [h0 EXCEPT !.pc = "findOne", !.formData = dec.formData, !.queries = 1]

\* a handler that hands the database's error to the caller
AfterFindOne_LeakError(hd, st, dbErr) ==
    IF dbErr # ""
    THEN [hd EXCEPT !.pc = "done", !.res = ErrorRes(500, dbErr),
                    !.caughtAt = "findOne", !.caught = dbErr]
    ELSE IF findOneBooking(st, ConflictQuery(hd.formData)) # NoDoc
         THEN [hd EXCEPT !.pc = "done", !.conflict = TRUE,
                         !.res = ErrorRes(409, MsgConflict)]
    ELSE [hd EXCEPT !.pc = "insert", !.inserts = 1]

\* a handler that answers a conflict as a plain rejection
AfterFindOne_Conflict400(hd, st, dbErr) ==
    IF dbErr # ""
    THEN [hd EXCEPT !.pc = "done", !.res = ErrorRes(500, MsgDbQuery),
                    !.caughtAt = "findOne", !.caught = dbErr]
    ELSE IF findOneBooking(st, ConflictQuery(hd.formData)) # NoDoc
         THEN [hd EXCEPT !.pc = "done", !.conflict = TRUE,
                         !.res = ErrorRes(400, MsgConflict)]
    ELSE [hd EXCEPT !.pc = "insert", !.inserts = 1]

\* the handler when findOneBooking settles: a rejection is answered 500, a
\* document found 409, and otherwise insertBooking is called
AfterFindOne(hd, st, dbErr) ==
    IF dbErr # ""
    THEN [hd EXCEPT !.pc = "done", !.res = ErrorRes(500, MsgDbQuery),
                    !.caughtAt = "findOne", !.caught = dbErr]
    ELSE IF findOneBooking(st, ConflictQuery(hd.formData)) # NoDoc
         THEN [hd EXCEPT !.pc = "done", !.conflict = TRUE,
                         !.res = ErrorRes(409, MsgConflict)]
    ELSE [hd EXCEPT !.pc = "insert", !.inserts = 1]

\* a handler that goes on to the mails although the insert threw
AfterInsert_IgnoreFailure(hd, ins, creds) ==
    IF ~ins.ok
    THEN [hd EXCEPT !.pc = "mailUser", !.mails = 1,
                    !.caughtAt = "insert", !.caught = ins.err]
    ELSE IF ~creds
         THEN [hd EXCEPT !.pc = "done", !.docAt = Len(ins.store), !.res = NotifyDisabledRes]
    ELSE [hd EXCEPT !.pc = "mailUser", !.docAt = Len(ins.store), !.mails = 1]

\* a handler that goes on to the mails whether or not credentials are set
AfterInsert_AlwaysMail(hd, ins, creds) ==
    IF ~ins.ok
    THEN [hd EXCEPT !.pc = "done", !.res = ErrorRes(500, MsgDbInsert),
                    !.caughtAt = "insert", !.caught = ins.err]
    ELSE [hd EXCEPT !.pc = "mailUser", !.docAt = Len(ins.store), !.mails = 1]

\* the handler when insertBooking settles
AfterInsert(hd, ins, creds) ==
    IF ~ins.ok
    THEN [hd EXCEPT !.pc = "done", !.res = ErrorRes(500, MsgDbInsert),
                    !.caughtAt = "insert", !.caught = ins.err]
    ELSE IF ~creds
         THEN [hd EXCEPT !.pc = "done", !.docAt = Len(ins.store), !.res = NotifyDisabledRes]
    ELSE [hd EXCEPT !.pc = "mailUser", !.docAt = Len(ins.store), !.mails = 1]

\* a handler that sends the admin alert whether or not the user
\* confirmation went out
AfterUserMail_ContinueOnFailure(hd, sent) ==
    [hd EXCEPT !.pc = "mailAdmin", !.mails = 2, !.mailFailed = ~sent]

\* a handler that answers a failed user confirmation as a failure
AfterUserMail_FailureIsError(hd, sent) ==
    IF sent THEN [hd EXCEPT !.pc = "mailAdmin", !.mails = 2]
    ELSE [hd EXCEPT !.pc = "done", !.mailFailed = TRUE,
                    !.res = ErrorRes(500, MsgMailWarning)]

\* what becomes of a request whose handler threw outside its try blocks:
\* the rejected promise of the async handler is either passed to the error
\* middleware, which answers 500, or dropped, and the request stays without
\* a response; which one depends on the framework's version
AfterThrow(hd, forwarded) ==
    IF forwarded THEN [hd EXCEPT !.pc = "done", !.res = ErrorRes(500, MsgInternal)]
    ELSE [hd EXCEPT !.pc = "unanswered"]

\* the handler when the send of the user confirmation settles
AfterUserMail(hd, sent) ==
    IF sent THEN [hd EXCEPT !.pc = "mailAdmin", !.mails = 2]
    ELSE [hd EXCEPT !.pc = "done", !.mailFailed = TRUE, !.res = NotifyFailedRes]

\* the handler when the send of the admin alert settles
AfterAdminMail(hd, sent) ==
    IF sent THEN [hd EXCEPT !.pc = "done", !.res = SuccessRes("", "")]
    ELSE [hd EXCEPT !.pc = "done", !.mailFailed = TRUE, !.res = NotifyFailedRes]

-----------------------------------------------------------------------------
(* Inputs *)

\* the most requests one behaviour submits
MaxReq == 2

Requests == 1..MaxReq

\* the errors a failing database call rejects with
DbErrors == {"MongoNetworkError", "MongoServerError"}

\* how a database call settles: "" when it resolves
DbOutcomes == {""} \cup DbErrors

\* 2026-11-05 at 00:00, 12:00 and 23:30 UTC, in minutes since the epoch
Instants == {20762 * MinutesPerDay, 20762 * MinutesPerDay + 720,
             20762 * MinutesPerDay + 1410}

\* UTC-5, UTC and UTC+5:30
TzOffsets == {-300, 0, 330}

Day03 == <<"2", "0", "2", "6", "-", "1", "1", "-", "0", "3">>

Day04 == <<"2", "0", "2", "6", "-", "1", "1", "-", "0", "4">>

Day05 == <<"2", "0", "2", "6", "-", "1", "1", "-", "0", "5">>

Day06 == <<"2", "0", "2", "6", "-", "1", "1", "-", "0", "6">>

Day07 == <<"2", "0", "2", "6", "-", "1", "1", "-", "0", "7">>

DateStrings == {Day03, Day04, Day05, Day06, Day07}

\* the payload of the specification's scenario A, for preferredDate d
BaseForm(d) ==
    [name |-> Str(<<"J", "a", "n", "e", " ", "D", "o", "e">>),
     email |-> Str(<<"J", "A", "N", "E", "@", "x", ".", "c", "o", "m">>),
     phone |-> Str(<<"1", "2", "3", "4", "5", "6", "7", "8", "9", "0">>),
     state |-> Str(<<"G", "u", "j", "a", "r", "a", "t">>),
     service |-> Str(<<"v", "i", "s", "a", "-", "p", "r", "o", "c", "e", "s", "s", "i", "n", "g">>),
     preferredDate |-> Str(d),
     message |-> Str(<<>>),
     englishLevel |-> Str(<<"G", "o", "o", "d", " ", "(", "7", " ", "B", "a", "n", "d", ")">>),
     age |-> Str(<<"1", "8", "-", "3", "5", " ", "y", "e", "a", "r", "s">>),
     education |-> Str(<<"G", "r", "a", "d", "u", "a", "t", "i", "o", "n">>),
     experience |-> Str(<<"1", " ", "y", "e", "a", "r">>),
     visaType |-> Str(<<"W", "o", "r", "k", " ", "P", "e", "r", "m", "i", "t">>)]

With(form, f, chars) == [form EXCEPT ![f] = Str(chars)]

EmailLower == <<"j", "a", "n", "e", "@", "x", ".", "c", "o", "m">>

EmailPadded == <<"j", "a", "n", "e", "@", "x", ".", "c", "o", "m", " ">>

EmailBad == <<"n", "o", "t", "-", "a", "n", "-", "e", "m", "a", "i", "l">>

NameBad == <<"J", "4", "n", "e">>

PhoneBad == <<"1", "2", "3", "4", "5">>

NotADate == <<"t", "o", "m", "o", "r", "r", "o", "w">>

ServicePadded == <<" ", "v", "i", "s", "a", "-", "p", "r", "o", "c", "e", "s", "s", "i", "n", "g", " ">>

\* another visitor's details under the same email and date
OtherForm(d) ==
    [BaseForm(d) EXCEPT !.name = Str(<<"J", "o", "h", "n", " ", "R", "o", "e">>), !.phone = Str(<<"+", "9", "1", " ", "9", "8", "7", "6", "5", "-", "4", "3", "2", "1", "0">>),
                        !.service = Str(<<"i", "m", "m", "i", "g", "r", "a", "t", "i", "o", "n">>), !.message = Str(<<"C", "a", "l", "l", " ", "m", "e">>),
                        !.email = Str(EmailLower)]

PlainBody(form) == [encrypted |-> NoCipher, data |-> form]

EncryptedBody(c) == [encrypted |-> c, data |-> EmptyObject]

\* an `encrypted` value that was not made with the server's key
GarbageBody == EncryptedBody(AESEncrypt(<<"g", "a", "r", "b", "a", "g", "e">>, "some other key"))

\* an `encrypted` value made with the server's key from a JSON text cut
\* short of its closing brace
TruncatedBody ==
    LET txt == JSONStringify(BaseForm(Day07))
    IN  EncryptedBody(AESEncrypt(SubSeq(txt, 1, Len(txt) - 1), DefaultKey))

\* an `encrypted` value made with the server's key from a text that is not JSON
NotJsonBody == EncryptedBody(AESEncrypt(<<"h", "e", "l", "l", "o">>, DefaultKey))

\* the request bodies of the concurrent pipeline
Bodies ==
    {PlainBody(BaseForm(Day07)),
     PlainBody(OtherForm(Day07)),
     PlainBody(With(BaseForm(Day03), "email", EmailBad)),
     PlainBody(BaseForm(Day03)),
     PlainBody(With(With(BaseForm(Day03), "email", EmailBad), "name", <<>>)),
     GarbageBody,
     TruncatedBody}

\* the request bodies of the one-at-a-time pipeline
SeqBodies ==
    Bodies \cup
    {PlainBody(With(BaseForm(Day07), "name", <<>>)),
     PlainBody(With(BaseForm(Day07), "name", NameBad)),
     PlainBody(With(BaseForm(Day07), "name", <<" ", " ">>)),
     PlainBody(With(BaseForm(Day07), "state", <<>>)),
     PlainBody(With(BaseForm(Day07), "preferredDate", NotADate)),
     PlainBody(With(BaseForm(Day07), "phone", PhoneBad)),
     PlainBody(With(BaseForm(Day07), "message", Rep("m", 501))),
     PlainBody(With(BaseForm(Day07), "email", EmailBad)),
     PlainBody(With(BaseForm(Day07), "email", EmailPadded)),
     PlainBody(BaseForm(Day06)),
     PlainBody(With(BaseForm(Day07), "service", ServicePadded)),
     PlainBody([BaseForm(Day07) EXCEPT !.email = Num(<<"5">>)]),
     PlainBody([BaseForm(Day07) EXCEPT !.name = Num(<<"5">>)]),
     NotJsonBody}

\* the forms the validators are applied to
ValForms ==
    {BaseForm(d) : d \in DateStrings}
    \cup {With(BaseForm(Day07), f, <<>>) : f \in FieldNames}
    \cup {With(BaseForm(Day07), "name", NameBad),
          With(BaseForm(Day07), "name", Rep("a", 50)),
          With(BaseForm(Day07), "name", Rep("a", 51)),
          With(BaseForm(Day07), "name", <<" ", " ">>),
          With(BaseForm(Day07), "email", EmailBad),
          With(BaseForm(Day07), "email", EmailPadded),
          With(BaseForm(Day07), "phone", PhoneBad),
          With(BaseForm(Day07), "message", Rep("m", 500)),
          With(BaseForm(Day07), "message", Rep("m", 501)),
          With(BaseForm(Day07), "preferredDate", NotADate),
          With(BaseForm(Day03), "email", EmailBad),
          With(With(BaseForm(Day03), "email", EmailBad), "name", <<>>),
          With(With(BaseForm(Day07), "email", EmailBad), "preferredDate", NotADate),
          OtherForm(Day07)}

-----------------------------------------------------------------------------
(* State *)

VARIABLES
    store,      \* the documents of the bookings collection, in insertion order
    h,          \* h[p]: the handler of request p
    outbox,     \* the mails the transport accepted, in order
    now,        \* the clock, minutes since the epoch
    tz,         \* the time zone of the server
    env,        \* the server's environment: mail credentials, SECRET_KEY
    formData,   \* the client form
    errors,     \* the client's error map
    validated,  \* whether validateForm has run on formData
    clientTz,   \* the time zone of the browser
    isSubmitting,   \* the client's isSubmitting flag
    submitMessage,  \* the client's submitMessage
    payload,    \* the request body of the client's last fetch
    fetches,    \* how many fetches the client has made
    selectedDate,   \* the Date held by the date picker, InvalidDate for null
    awaiting,   \* whether a handleSubmit call is suspended at its await of fetch
    clientEnv   \* the build environment of the client: NODE_ENV, REACT_APP_SECRET_KEY

vars == <<store, h, outbox, now, tz, env, formData, errors, validated, clientTz,
          isSubmitting, submitMessage, payload, fetches, selectedDate, awaiting,
          clientEnv>>

serverVars == <<store, h, outbox>>

clientVars ==
    <<formData, errors, validated, isSubmitting, submitMessage, payload, fetches,
      selectedDate, awaiting>>

envVars == <<now, tz, env, clientTz, clientEnv>>

initialFormData == [f \in FieldNames |-> Str(<<>>)]

NoErrors == [f \in {} |-> ""]

ServerInit ==
    /\ store = <<>>
    /\ h = [p \in Requests |-> IdleHandler]
    /\ outbox = <<>>

\* no fetch made yet
NoPayload == [encrypted |-> NoCipher, data |-> EmptyObject]

ClientInit ==
    /\ formData = initialFormData
    /\ errors = NoErrors
    /\ validated = FALSE
    /\ isSubmitting = FALSE
    /\ submitMessage = ""
    /\ payload = NoPayload
    /\ fetches = 0
    /\ selectedDate = InvalidDate
    /\ awaiting = FALSE

\* a development build of the client, without REACT_APP_SECRET_KEY
DevClient == [production |-> FALSE, SECRET_KEY |-> ""]

\* the account the mails are sent from, when configured
MailUser == <<"o", "f", "f", "i", "c", "e", "@", "x", ".", "c", "o", "m">>

\* the administrative mailbox, when configured
AdminMailbox == <<"a", "d", "m", "i", "n", "@", "x", ".", "c", "o", "m">>

\* the server's environment without mail credentials, with them, and with
\* ADMIN_EMAIL besides; SECRET_KEY is not set
MailEnvs ==
    {[EMAIL_CREDS |-> FALSE, EMAIL_USER |-> <<>>, ADMIN_EMAIL |-> <<>>, SECRET_KEY |-> ""],
     [EMAIL_CREDS |-> TRUE, EMAIL_USER |-> MailUser, ADMIN_EMAIL |-> <<>>, SECRET_KEY |-> ""],
     [EMAIL_CREDS |-> TRUE, EMAIL_USER |-> MailUser, ADMIN_EMAIL |-> AdminMailbox,
      SECRET_KEY |-> ""]}

\* the pipeline runs on a server at UTC+5:30, at noon UTC of 2026-11-05
Init ==
    /\ ServerInit
    /\ ClientInit
    /\ now = 20762 * MinutesPerDay + 720
    /\ tz = 330
    /\ clientTz = tz
    /\ clientEnv = DevClient
    /\ env \in MailEnvs

-----------------------------------------------------------------------------
(* Actions of the server *)

\* request p arrives with `body` and runs to its first await
ReceiveRequest(p, body) ==
    /\ h[p].pc = "idle"
    /\ \A q \in Requests : q < p => h[q].pc # "idle"
    /\ \E d \in AESDecryptOutcomes(body.encrypted, SECRET_KEY(env.SECRET_KEY)) :
          h' = [h EXCEPT ![p] = AfterReceive(h[p], body, SECRET_KEY(env.SECRET_KEY),
                                              d, now, tz, Len(store))]
    /\ UNCHANGED <<store, outbox, clientVars, envVars>>

\* findOneBooking settles for request p
FindOneSettles(p) ==
    /\ h[p].pc = "findOne"
    /\ \E dbErr \in DbOutcomes : h' = [h EXCEPT ![p] = AfterFindOne(h[p], store, dbErr)]
    /\ UNCHANGED <<store, outbox, clientVars, envVars>>

\* insertBooking settles for request p
InsertSettles(p) ==
    /\ h[p].pc = "insert"
    /\ \E dbErr \in DbOutcomes :
          LET ins == IF InsertDataThrows(h[p].formData)
                     THEN [ok |-> FALSE, err |-> "TypeError", store |-> store]
                     ELSE insertBooking(store, InsertData(h[p].formData), dbErr)
          IN  /\ store' = ins.store
              /\ h' = [h EXCEPT ![p] = AfterInsert(h[p], ins, env.EMAIL_CREDS)]
    /\ UNCHANGED <<outbox, clientVars, envVars>>

\* transporter.sendMail(userMailOptions) settles for request p
UserMailSettles(p) ==
    /\ h[p].pc = "mailUser"
    /\ \E sent \in BOOLEAN :
          /\ h' = [h EXCEPT ![p] = AfterUserMail(h[p], sent)]
          /\ outbox' = IF sent
                       THEN Append(outbox, [kind |-> "user", req |-> p,
                                            to |-> h[p].formData.email])
                       ELSE outbox
    /\ UNCHANGED <<store, clientVars, envVars>>

\* transporter.sendMail(adminMailOptions) settles for request p
AdminMailSettles(p) ==
    /\ h[p].pc = "mailAdmin"
    /\ \E sent \in BOOLEAN :
          /\ h' = [h EXCEPT ![p] = AfterAdminMail(h[p], sent)]
          /\ outbox' = IF sent
                       THEN Append(outbox, [kind |-> "admin", req |-> p,
                                            to |-> AdminAddress(env)])
                       ELSE outbox
    /\ UNCHANGED <<store, clientVars, envVars>>

Receive == \E p \in Requests, body \in Bodies : ReceiveRequest(p, body)

FindOne == \E p \in Requests : FindOneSettles(p)

Insert == \E p \in Requests : InsertSettles(p)

UserMail == \E p \in Requests : UserMailSettles(p)

AdminMail == \E p \in Requests : AdminMailSettles(p)

\* requests run concurrently: any handler may take its next step
Next == Receive \/ FindOne \/ Insert \/ UserMail \/ AdminMail

Spec == Init /\ [][Next]_vars

-----------------------------------------------------------------------------
(* One request at a time *)

NoneInFlight == \A q \in Requests : h[q].pc \in {"idle", "done", "unanswered"}

\* the rejected promise of the handler of request p is dealt with
UnhandledRejection(p) ==
    /\ h[p].pc = "thrown"
    /\ \E forwarded \in BOOLEAN : h' = [h EXCEPT ![p] = AfterThrow(h[p], forwarded)]
    /\ UNCHANGED <<store, outbox, clientVars, envVars>>

Unhandled == \E p \in Requests : UnhandledRejection(p)

ReceiveSeq ==
    /\ NoneInFlight
    /\ \E p \in Requests, body \in SeqBodies : ReceiveRequest(p, body)

NextSeq == ReceiveSeq \/ FindOne \/ Insert \/ UserMail \/ AdminMail \/ Unhandled

SpecSeq == Init /\ [][NextSeq]_vars

-----------------------------------------------------------------------------
(* The validators applied to one form *)

InitVal ==
    /\ ServerInit
    /\ formData \in ValForms
    /\ errors = NoErrors
    /\ validated = FALSE
    /\ isSubmitting = FALSE
    /\ submitMessage = ""
    /\ payload = NoPayload
    /\ fetches = 0
    /\ selectedDate = InvalidDate
    /\ awaiting = FALSE
    /\ clientEnv = DevClient
    /\ now \in Instants
    /\ tz \in TzOffsets
    /\ clientTz \in TzOffsets
    /\ env = [EMAIL_CREDS |-> TRUE, EMAIL_USER |-> MailUser, ADMIN_EMAIL |-> AdminMailbox,
              SECRET_KEY |-> ""]

\* the client runs validateForm(formData)
ClientValidate ==
    /\ ~validated
    /\ errors' = validateForm(formData, now, clientTz)
    /\ validated' = TRUE
    /\ UNCHANGED <<serverVars, formData, isSubmitting, submitMessage, payload, fetches,
                   selectedDate, awaiting, envVars>>

\* the server receives formData as a plain body
ServerCheck == ReceiveRequest(1, PlainBody(formData))

\* sanitizeInput(value): the characters < > " ' removed
sanitizeInput(value) == SelectSeq(value, LAMBDA c : c \notin {"<", ">", "\"", "'"})

\* how many days after today the visitor may pick
PickAhead == 0..2

\* the visitor picks a day in the date picker, today (minDate) or later:
\* onChange stores the Date and hands its ISO day to handleInputChange,
\* which sanitizes it into formData and blanks the field's error
PickDate ==
    /\ ~validated
    /\ h[1].pc = "idle"
    /\ ~selectedDate.valid
    /\ \E k \in PickAhead :
          LET date == StartOfLocalDay(LocalDay(now, clientTz) + k, clientTz)
          IN  /\ selectedDate' = date
              /\ formData' = [formData EXCEPT
                                  !.preferredDate = Str(sanitizeInput(ToISODate(date)))]
    /\ errors' = IF "preferredDate" \in DOMAIN errors /\ errors["preferredDate"] # ""
                 THEN [errors EXCEPT !["preferredDate"] = ""]
                 ELSE errors
    /\ UNCHANGED <<serverVars, validated, isSubmitting, submitMessage, payload, fetches,
                   awaiting, envVars>>

NextVal == ClientValidate \/ ServerCheck \/ PickDate

SpecVal == InitVal /\ [][NextVal]_vars

-----------------------------------------------------------------------------
(* The client's submission and the server behind it *)

\* process.env.REACT_APP_SECRET_KEY || "EasyGoAdvisor@1974"
ClientSecretKey(envKey) == IF envKey = "" THEN DefaultKey ELSE envKey

\* the body the handler sees for the client's fetch of fd. In production it
\* is { encrypted } with the AES ciphertext of JSON.stringify(fd); in
\* development it is fd itself, written by JSON.stringify and read back by
\* the server's JSON body parser
Encode(fd, cenv) ==
    IF cenv.production
    THEN EncryptedBody(AESEncrypt(JSONStringify(fd), ClientSecretKey(cenv.SECRET_KEY)))
    ELSE PlainBody(JSONParse(JSONStringify(fd)).obj)

MsgThanks ==
    "Thank you! Your appointment request has been submitted successfully. We will contact you within 24 hours."

MsgGeneric ==
    "Sorry, there was an error submitting your request. Please try again or contact us directly."

\* response.ok
ResponseOk(res) == res.status \in 200..299

\* the message shown for a response that is not ok: the error of its body
\* when it has one, the default otherwise
ErrorMessageOf(res) == IF res.error # "" THEN res.error ELSE MsgGeneric

MsgLine == <<"L", "i", "n", "e", " ", "1", "\n", "C", ":", "\\", "d", "o", "c", "s", "\t", "e", "n", "d">>

\* the forms a visitor submits
ClientForms ==
    {With(BaseForm(Day07), "message", MsgLine),
     With(BaseForm(Day07), "email", EmailPadded),
     With(BaseForm(Day07), "state", <<>>),
     With(BaseForm(Day07), "name", NameBad),
     BaseForm(Day03)}

\* the keys an environment may configure; "" is the variable left unset
EnvKeys == {"", "prod-key"}

InitClient ==
    /\ ServerInit
    /\ formData \in ClientForms
    /\ errors = NoErrors
    /\ validated = FALSE
    /\ isSubmitting = FALSE
    /\ submitMessage = ""
    /\ payload = NoPayload
    /\ fetches = 0
    /\ selectedDate = InvalidDate
    /\ awaiting = FALSE
    /\ now = 20762 * MinutesPerDay + 720
    /\ tz = 330
    /\ clientTz = tz
    /\ clientEnv \in [production : BOOLEAN, SECRET_KEY : EnvKeys]
    /\ env \in [EMAIL_CREDS : {TRUE}, EMAIL_USER : {MailUser}, ADMIN_EMAIL : {AdminMailbox},
                 SECRET_KEY : EnvKeys]

\* a handleSubmit that fetches without looking at the validation errors
handleSubmit_NoGate ==
    /\ ~isSubmitting
    /\ fetches < MaxReq
    /\ isSubmitting' = TRUE
    /\ errors' = NoErrors
    /\ payload' = Encode(formData, clientEnv)
    /\ fetches' = fetches + 1
    /\ awaiting' = TRUE
    /\ UNCHANGED <<serverVars, formData, validated, submitMessage, selectedDate, envVars>>

\* handleSubmit up to its await: validation errors end it; otherwise the
\* payload is built and fetched
handleSubmit ==
    /\ ~isSubmitting
    /\ fetches < MaxReq
    /\ LET validationErrors == validateForm(formData, now, clientTz)
       IN  IF DOMAIN validationErrors # {}
           THEN /\ errors' = validationErrors
                /\ UNCHANGED <<isSubmitting, payload, fetches, awaiting>>
           ELSE /\ isSubmitting' = TRUE
                /\ errors' = NoErrors
                /\ payload' = Encode(formData, clientEnv)
                /\ fetches' = fetches + 1
                /\ awaiting' = TRUE
    /\ UNCHANGED <<serverVars, formData, validated, submitMessage, selectedDate, envVars>>

\* the request of the client's fetch reaches the handler
FetchReachesServer ==
    /\ awaiting
    /\ ReceiveRequest(fetches, payload)

\* a handleSubmit whose return on a response that is not ok leaves before
\* isSubmitting is set back
FetchResolves_ReturnSkipsFinally ==
    /\ awaiting
    /\ h[fetches].pc = "done"
    /\ IF ResponseOk(h[fetches].res)
       THEN /\ submitMessage' = MsgThanks
            /\ formData' = initialFormData
            /\ selectedDate' = InvalidDate
            /\ isSubmitting' = FALSE
       ELSE /\ submitMessage' = ErrorMessageOf(h[fetches].res)
            /\ UNCHANGED <<formData, selectedDate, isSubmitting>>
    /\ awaiting' = FALSE
    /\ UNCHANGED <<serverVars, errors, validated, payload, fetches, envVars>>

\* the response arrives: handleSubmit from its await to its end, the finally
\* block included
FetchResolves ==
    /\ awaiting
    /\ h[fetches].pc = "done"
    /\ IF ResponseOk(h[fetches].res)
       THEN /\ submitMessage' = MsgThanks
            /\ formData' = initialFormData
            /\ selectedDate' = InvalidDate
       ELSE /\ submitMessage' = ErrorMessageOf(h[fetches].res)
            /\ UNCHANGED <<formData, selectedDate>>
    /\ isSubmitting' = FALSE
    /\ awaiting' = FALSE
    /\ UNCHANGED <<serverVars, errors, validated, payload, fetches, envVars>>

\* the fetch rejects, before or after the request reached the server:
\* handleSubmit's catch and finally
FetchRejects ==
    /\ awaiting
    /\ submitMessage' = MsgGeneric
    /\ isSubmitting' = FALSE
    /\ awaiting' = FALSE
    /\ UNCHANGED <<serverVars, formData, errors, validated, payload, fetches, selectedDate,
                   envVars>>

NextClient ==
    \/ handleSubmit
    \/ FetchReachesServer
    \/ FindOne
    \/ Insert
    \/ UserMail
    \/ AdminMail
    \/ FetchResolves
    \/ FetchRejects

SpecClient == InitClient /\ [][NextClient]_vars

\* client and server built with the same, default, key
InitClientFair ==
    /\ InitClient
    /\ clientEnv.SECRET_KEY = ""
    /\ env.SECRET_KEY = ""

\* the fetch settles: a pending fetch ends with a response or with a
\* rejection
SpecClientFair ==
    /\ InitClientFair
    /\ [][NextClient]_vars
    /\ WF_vars(FetchResolves \/ FetchRejects)

-----------------------------------------------------------------------------
(* Properties of the pipeline *)

Answered(p) == h[p].pc = "done"

SameKey(a, b) == a.email = b.email /\ a.preferredDate = b.preferredDate

\* C1: once insertBooking has succeeded, a mail send that fails (the user
\* confirmation or the admin alert) still leaves the request answered 200
\* with success: true and a warning, and the record inserted for it is in
\* the store.
C1_NotifyFailureKeepsBooking ==
    \A p \in Requests :
        h[p].mailFailed =>
            /\ Answered(p)
            /\ h[p].res.status = 200
            /\ h[p].res.success
            /\ h[p].res.warning # ""
            /\ h[p].res.error = ""
            /\ h[p].docAt \in DOMAIN store
            /\ store[h[p].docAt].email.v = Trim(ToLowerCase(h[p].formData.email.v))
            /\ store[h[p].docAt].preferredDate = h[p].formData.preferredDate

\* one request whose user confirmation failed, another whose admin alert failed
C1_Witness ==
    \E p, q \in Requests :
        /\ h[p].mailFailed /\ h[p].mails = 1 /\ Answered(p)
        /\ h[q].mailFailed /\ h[q].mails = 2 /\ Answered(q)
        /\ Len(store) = 2
        /\ \E m \in DOMAIN outbox : outbox[m].req = q /\ outbox[m].kind = "user"

\* C2: when requests are handled one at a time, the store never holds two
\* records with the same (email, preferredDate) pair.
C2_NoDuplicatePairs ==
    \A i, j \in DOMAIN store : i # j => ~SameKey(store[i], store[j])

\* C3: the insert is not conditional on the store: every request whose
\* conflict check found nothing and whose insert succeeded has added a record
\* of its own and is answered as accepted, also when another request stored
\* the same (email, preferredDate) pair between its check and its insert.
C3_EveryPassedCheckInserts ==
    /\ Len(store) = Cardinality({p \in Requests : h[p].docAt # 0})
    /\ \A p \in Requests :
          h[p].docAt # 0 =>
              /\ h[p].docAt \in DOMAIN store
              /\ \A q \in Requests : q # p => h[q].docAt # h[p].docAt
              /\ store[h[p].docAt].email.v = Trim(ToLowerCase(h[p].formData.email.v))
              /\ store[h[p].docAt].preferredDate = h[p].formData.preferredDate
              /\ Answered(p) => h[p].res.status = 200 /\ h[p].res.success

\* two requests with the same body, both received while the store was empty,
\* both answered as accepted, and two records with the same pair in the store
C3_Witness ==
    \E p, q \in Requests :
        /\ p # q
        /\ h[p].body = h[q].body
        /\ h[p].seen = 0 /\ h[q].seen = 0
        /\ Answered(p) /\ h[p].res.status = 200 /\ h[p].res.success
        /\ Answered(q) /\ h[q].res.status = 200 /\ h[q].res.success
        /\ Len(store) = 2
        /\ SameKey(store[1], store[2])

\* the store held, when request p arrived, a record for p's preferredDate and
\* for p's email up to letter case
StoredBefore(p) ==
    \E i \in 1..h[p].seen :
        /\ i \in DOMAIN store
        /\ store[i].preferredDate = h[p].formData.preferredDate
        /\ ToLowerCase(store[i].email.v) = ToLowerCase(h[p].formData.email.v)

\* C4: a valid submission that arrives when the store holds a record for its
\* preferredDate and for its email up to letter case never reaches the insert:
\* it is answered 409 once the conflict query has answered (500 if the query
\* itself fails), whatever its other fields, and adds no record.
C4_CaseVariantConflicts ==
    \A p \in Requests :
        h[p].queries = 1 /\ StoredBefore(p) =>
            /\ h[p].pc \in {"findOne", "done"}
            /\ h[p].inserts = 0
            /\ h[p].docAt = 0
            /\ h[p].mails = 0
            /\ Answered(p) =>
                  \/ h[p].res = ErrorRes(409, MsgConflict)
                  \/ h[p].res = ErrorRes(500, MsgDbQuery)

\* a request answered 409 whose email differs in case, and whose name differs,
\* from the record it conflicts with
C4_Witness ==
    \E p \in Requests :
        /\ Answered(p)
        /\ h[p].res.status = 409
        /\ StoredBefore(p)
        /\ \E i \in 1..h[p].seen :
              /\ store[i].preferredDate = h[p].formData.preferredDate
              /\ ToLowerCase(store[i].email.v) = ToLowerCase(h[p].formData.email.v)
              /\ store[i].email # h[p].formData.email
              /\ store[i].name # h[p].formData.name
        /\ Len(store) = 1

\* the body of request p cannot be decoded with the server's key
DecodeFails(p) ==
    /\ h[p].body.encrypted.present
    /\ h[p].body.encrypted.key # SECRET_KEY(env.SECRET_KEY)

\* the plain body of request p breaks a rule of the server's validation
ValidationFails(p) ==
    /\ ~h[p].body.encrypted.present
    /\ \/ MissingRequired(h[p].body.data)
       \/ ~EmailFormatOk(h[p].body.data)
       \/ DateIsInvalid(h[p].body.data)
       \/ DateIsPast(h[p].body.data, now, tz)

\* C5: a submission that fails decoding or a validation rule (missing
\* required field, invalid email, invalid or past date) is answered 400 and
\* has no side effect: no store query, no insert and no mail send is made for
\* it, and no record or mail of it exists.
C5_RejectionHasNoSideEffect ==
    \A p \in Requests :
        h[p].pc # "idle" /\ (DecodeFails(p) \/ ValidationFails(p)) =>
            /\ Answered(p)
            /\ h[p].res.status = 400
            /\ ~h[p].res.success
            /\ h[p].queries = 0
            /\ h[p].inserts = 0
            /\ h[p].mails = 0
            /\ h[p].docAt = 0
            /\ \A m \in DOMAIN outbox : outbox[m].req # p
            /\ Len(store) = Cardinality({q \in Requests : h[q].docAt # 0})

\* a request rejected at decoding and a request rejected for its past date
C5_Witness ==
    \E p, q \in Requests :
        /\ DecodeFails(p) /\ Answered(p) /\ h[p].res.status = 400
        /\ ValidationFails(q) /\ Answered(q) /\ h[q].res = ErrorRes(400, MsgDatePast)

\* the payload breaks the name, phone or message rule of the validators
BreaksFormatRule(fd) ==
    \/ ~nameRegex(Trim(fd.name.v))
    \/ ~phoneRegex(Trim(fd.phone.v))
    \/ Len(fd.message.v) > 500

\* C6: the server rejects with a 4xx response, before any store call, every
\* payload whose trimmed name or phone does not match its pattern or whose
\* message is longer than 500 characters, so that no stored booking breaks
\* these rules.
C6_ServerEnforcesFormatRules ==
    /\ \A p \in Requests :
          /\ h[p].pc # "idle"
          /\ ~h[p].body.encrypted.present
          /\ BreaksFormatRule(h[p].body.data)
          => /\ Answered(p)
             /\ h[p].res.status \in 400..499
             /\ h[p].queries = 0
    /\ \A i \in DOMAIN store :
          /\ nameRegex(store[i].name.v)
          /\ phoneRegex(store[i].phone.v)
          /\ Len(store[i].message.v) <= 500

-----------------------------------------------------------------------------
(* Properties of the validators *)

\* the fields of the payload that break a rule of the server's validation
FailingFields(fd) ==
    {f \in RequiredFields : ~Truthy(fd[f])}
    \cup (IF Truthy(fd.email) /\ ~EmailFormatOk(fd) THEN {"email"} ELSE {})
    \cup (IF Truthy(fd.preferredDate) /\ (DateIsInvalid(fd) \/ DateIsPast(fd, now, tz))
          THEN {"preferredDate"} ELSE {})

\* C7 as claimed: the response to a submission rejected by the server's
\* validation carries a field-keyed error map naming every failing field; a
\* payload whose only defect is a malformed email has fieldErrors.email set.
C7_RejectionCarriesFieldErrors ==
    h[1].pc # "idle" /\ FailingFields(h[1].body.data) # {} =>
        DOMAIN h[1].res.fieldErrors = FailingFields(h[1].body.data)

\* C7 as amended: the response to a submission rejected by the server's
\* validation has status 400 and carries one error string, the message of the
\* first check that fails in the order required fields, email format, date
\* format, past date, and no field-keyed map; a payload whose only defect is
\* a malformed email is rejected with "Invalid email format.".
C7_RejectionNamesFirstFailingCheck ==
    h[1].pc # "idle" =>
        LET fd == h[1].body.data
        IN  /\ MissingRequired(fd) => h[1].res = ErrorRes(400, MsgMissing)
            /\ ~MissingRequired(fd) /\ ~EmailFormatOk(fd) =>
                  h[1].res = ErrorRes(400, MsgEmail)
            /\ ~MissingRequired(fd) /\ EmailFormatOk(fd) /\ DateIsInvalid(fd) =>
                  h[1].res = ErrorRes(400, MsgDateFormat)
            /\ ~MissingRequired(fd) /\ EmailFormatOk(fd) /\ ~DateIsInvalid(fd)
               /\ DateIsPast(fd, now, tz) =>
                  h[1].res = ErrorRes(400, MsgDatePast)
            /\ h[1].res.fieldErrors = NoFieldErrors

\* the payload whose only defect is a malformed email, rejected
C7_Witness ==
    /\ Answered(1)
    /\ h[1].body.data = With(BaseForm(Day07), "email", EmailBad)
    /\ FailingFields(h[1].body.data) = {"email"}
    /\ h[1].res.status = 400
    /\ h[1].res.error = MsgEmail

\* the calendar day (days since the epoch) a YYYY-MM-DD string names
DayNamed(chars) == ParseDate(chars).t \div MinutesPerDay

\* C8: for the client validateForm and for the server date check, a
\* preferredDate naming yesterday is rejected and one naming today or a later
\* day is accepted, whatever the time of day and the local UTC offset.
C8_DateBoundary ==
    ParseDate(formData.preferredDate.v).valid =>
        LET day == DayNamed(formData.preferredDate.v)
        IN  /\ validated =>
                  /\ day = LocalDay(now, clientTz) - 1 => "preferredDate" \in DOMAIN errors
                  /\ day >= LocalDay(now, clientTz) => "preferredDate" \notin DOMAIN errors
            /\ h[1].pc # "idle" /\ ~MissingRequired(formData) /\ EmailFormatOk(formData) =>
                  /\ day = LocalDay(now, tz) - 1 => h[1].res = ErrorRes(400, MsgDatePast)
                  /\ day >= LocalDay(now, tz) => h[1].pc = "findOne"

\* C9: for each required field, validateForm applied to a payload in which
\* that field is empty returns an error map containing that field's key.
C9_ValidatorCompleteness ==
    validated =>
        \A f \in RequiredFields : formData[f].v = <<>> => f \in DOMAIN errors

\* every field is present and meets its documented format rule
DocumentedRulesMet(fd) ==
    /\ \A f \in RequiredFields : Truthy(fd[f])
    /\ nameRegex(Trim(fd.name.v))
    /\ emailRegex(Trim(fd.email.v))
    /\ phoneRegex(Trim(fd.phone.v))
    /\ Len(fd.message.v) <= 500
    /\ ParseDate(fd.preferredDate.v).valid

\* C10: for a payload with all fields present, every documented format rule
\* met and preferredDate equal to today, validateForm returns an empty error
\* map and the server's checks let the payload reach the conflict check.
C10_ValidTodayAccepted ==
    DocumentedRulesMet(formData) =>
        /\ validated /\ DayNamed(formData.preferredDate.v) = LocalDay(now, clientTz) =>
              errors = NoErrors
        /\ h[1].pc # "idle" /\ DayNamed(formData.preferredDate.v) = LocalDay(now, tz) =>
              h[1].pc = "findOne" /\ h[1].queries = 1


-----------------------------------------------------------------------------
(* Properties of the codec and of the client *)

SharedKey == ClientSecretKey(clientEnv.SECRET_KEY) = SECRET_KEY(env.SECRET_KEY)

DecodeMessages == {MsgConfig, MsgDecrypt, MsgFormat}

\* C11: when client and server hold the same key, the payload the handler
\* works on after decoding the body the client built from a form that passed
\* validateForm is that form, field for field, in production mode (JSON text
\* under AES in { encrypted }) and in development mode (the plain object),
\* and the decode step does not reject it.
C11_CodecRoundTrip ==
    (isSubmitting /\ h[fetches].pc # "idle" /\ SharedKey) =>
        /\ h[fetches].body = Encode(formData, clientEnv)
        /\ h[fetches].formData = formData
        /\ h[fetches].res.error \notin DecodeMessages

\* an encrypted submission under a configured key, of a message with a line
\* break, a backslash and a tab, decoded by the handler
C11_Witness ==
    /\ isSubmitting
    /\ clientEnv.production
    /\ clientEnv.SECRET_KEY = "prod-key"
    /\ env.SECRET_KEY = "prod-key"
    /\ formData.message = Str(MsgLine)
    /\ h[fetches].pc \notin {"idle", "done"}
    /\ h[fetches].body.encrypted.present
    /\ h[fetches].formData = formData


ValidationMessages == {MsgMissing, MsgEmail, MsgDateFormat, MsgDatePast}

\* the `encrypted` value of request p does not open under the server's key,
\* or opens to a text JSON.parse rejects
Undecodable(p) ==
    /\ h[p].body.encrypted.present
    /\ \/ h[p].body.encrypted.key # SECRET_KEY(env.SECRET_KEY)
       \/ ~JSONParse(h[p].body.encrypted.text).ok

\* C12: a request whose `encrypted` value cannot be decrypted with the
\* server's key, or decrypts to a text that does not parse, is answered in
\* the step that received it, with status 400 and one of the two decode
\* messages, neither of which is a validation message; the handler took no
\* payload from it and made no store call and no mail send for it.
C12_DecodeRobustness ==
    \A p \in Requests :
        (h[p].pc # "idle" /\ Undecodable(p)) =>
            /\ Answered(p)
            /\ h[p].res.status = 400
            /\ h[p].res.error \in {MsgDecrypt, MsgFormat}
            /\ h[p].res.error \notin ValidationMessages
            /\ ~h[p].res.success
            /\ h[p].formData = EmptyObject
            /\ h[p].queries = 0 /\ h[p].inserts = 0 /\ h[p].mails = 0
            /\ h[p].docAt = 0

\* one request under a foreign key whose bytes came out empty, one under the
\* server's key whose JSON text is cut short, both rejected, the store empty
C12_Witness ==
    \E p, q \in Requests :
        /\ h[p].body = GarbageBody /\ h[p].res.error = MsgDecrypt
        /\ h[q].body = TruncatedBody /\ h[q].res.error = MsgFormat
        /\ store = <<>>


\* the object step 1 hands to validation when the body of request p decodes
PayloadOf(p) ==
    IF h[p].body.encrypted.present THEN JSONParse(h[p].body.encrypted.text).obj
    ELSE h[p].body.data

\* request p fails step 1 or a rule of step 2
DecodeOrValidationFails(p) ==
    Undecodable(p) \/ ServerValidate(PayloadOf(p), now, tz) # ""

StoreCallFailed(p) == h[p].caughtAt \in {"findOne", "insert"}

C14_NoCredentialsNoMail ==
    ~env.EMAIL_CREDS =>
        /\ outbox = <<>>
        /\ \A p \in Requests :
              /\ h[p].mails = 0
              /\ h[p].pc \notin {"mailUser", "mailAdmin"}
              /\ ~h[p].mailFailed
              /\ h[p].docAt # 0 =>
                    /\ Answered(p)
                    /\ h[p].res.status = 200
                    /\ h[p].res.success
                    /\ h[p].res.message = MsgMailDisabled
                    /\ h[p].res.warning = ""
                    /\ h[p].res.error = ""
                    /\ h[p].docAt \in DOMAIN store
                    /\ store[h[p].docAt] = BookingSchema(InsertData(h[p].formData))

\* without credentials, a booking stored and answered with the annotation
C14_Witness ==
    /\ ~env.EMAIL_CREDS
    /\ \E p \in Requests :
          /\ Answered(p)
          /\ h[p].docAt = 1
          /\ h[p].inserts = 1
          /\ h[p].res = NotifyDisabledRes
          /\ Len(store) = 1
    /\ outbox = <<>>


\* C15: a request whose findOneBooking threw is answered 500 and makes no
\* insert and no mail send; a request whose insertBooking threw is answered
\* 500, never with success, and makes no mail send; neither leaves a record.
C15_StoreFailureStopsPipeline ==
    \A p \in Requests :
        /\ h[p].caughtAt = "findOne" =>
              /\ Answered(p)
              /\ h[p].res = ErrorRes(500, MsgDbQuery)
              /\ h[p].inserts = 0
        /\ h[p].caughtAt = "insert" =>
              /\ Answered(p)
              /\ h[p].res = ErrorRes(500, MsgDbInsert)
              /\ h[p].inserts = 1
        /\ StoreCallFailed(p) =>
              /\ h[p].mails = 0
              /\ ~h[p].res.success
              /\ h[p].docAt = 0
              /\ \A m \in DOMAIN outbox : outbox[m].req # p
              /\ Len(store) = Cardinality({q \in Requests : h[q].docAt # 0})

\* one request stopped at the conflict query, another at the insert, with
\* mail credentials configured
C15_Witness ==
    /\ env.EMAIL_CREDS
    /\ \E p, q \in Requests :
          /\ h[p].caughtAt = "findOne" /\ h[p].caught \in DbErrors
          /\ h[q].caughtAt = "insert" /\ h[q].caught \in DbErrors
    /\ store = <<>>
    /\ outbox = <<>>


IsLowerCase(s) == \A i \in DOMAIN s : ~IsUpper(s[i])

IsTrimmed(s) == Trim(s) = s

\* C16: every record in the store has a lowercase email and no string field
\* with leading or trailing whitespace, whatever was submitted.
C16_StoredBookingNormalized ==
    \A i \in DOMAIN store :
        /\ IsLowerCase(store[i].email.v)
        /\ \A f \in DOMAIN store[i] : IsTrimmed(store[i][f].v)


\* C17: for one payload, clock and time zone, the client's validateForm
\* returns an empty error map exactly when the server's validation lets the
\* payload through to the conflict query.
C17_ValidatorsAgree ==
    (validated /\ h[1].pc # "idle" /\ clientTz = tz) =>
        (DOMAIN errors = {} <=> h[1].res.status # 400)


\* C18: with no key configured, an encrypted submission is answered with the
\* configuration error and goes no further on the server, and the client
\* never encrypts a payload under a key it was not given.
C18_MissingKeyFailsLoudly ==
    /\ \A p \in Requests :
          (h[p].pc # "idle" /\ h[p].body.encrypted.present /\ env.SECRET_KEY = "") =>
              /\ Answered(p)
              /\ h[p].res = ErrorRes(500, MsgConfig)
              /\ h[p].queries = 0
    /\ (payload.encrypted.present /\ clientEnv.SECRET_KEY = "") =>
          payload.encrypted.key # DefaultKey


\* the response of each catch block
FixedResponse(step) ==
    CASE step = "decode" -> ErrorRes(400, MsgFormat)
      [] step = "findOne" -> ErrorRes(500, MsgDbQuery)
      [] step = "insert" -> ErrorRes(500, MsgDbInsert)

\* C19: the response to a request that ended in a catch block of the decode
\* step or of a store call is the fixed response of that block: two requests
\* that ended in the same block have the same response body, whatever error
\* each block caught, and the submitMessage the client shows for such a
\* request is that response's fixed error text or the client's own generic
\* text.
C19_FailureMessagesAreGeneric ==
    /\ \A p \in Requests :
          h[p].caughtAt # "" =>
              /\ Answered(p)
              /\ h[p].res = FixedResponse(h[p].caughtAt)
    /\ \A p, q \in Requests :
          (h[p].caughtAt # "" /\ h[p].caughtAt = h[q].caughtAt) => h[p].res = h[q].res
    /\ (~isSubmitting /\ fetches > 0 /\ h[fetches].caughtAt # "") =>
          submitMessage \in {FixedResponse(h[fetches].caughtAt).error, MsgGeneric}

\* two submissions of one form, the conflict query of the first failing with
\* one error and that of the second with another, the client showing the
\* same text after both
C19_Witness ==
    /\ fetches = 2
    /\ ~isSubmitting
    /\ h[1].caughtAt = "findOne" /\ h[2].caughtAt = "findOne"
    /\ h[1].caught # h[2].caught
    /\ h[1].body = h[2].body
    /\ h[1].res = h[2].res
    /\ submitMessage = MsgDbQuery


\* the error of the earliest of steps 1 and 2 that request p fails, "" when
\* it fails none (for a decryption that fails, either text of step 1)
FirstFailure(p) ==
    IF Undecodable(p) THEN {MsgDecrypt, MsgFormat}
    ELSE IF MissingRequired(PayloadOf(p)) THEN {MsgMissing}
    ELSE IF ~EmailFormatOk(PayloadOf(p)) THEN {MsgEmail}
    ELSE IF DateIsInvalid(PayloadOf(p)) THEN {MsgDateFormat}
    ELSE IF DateIsPast(PayloadOf(p), now, tz) THEN {MsgDatePast}
    ELSE {""}

\* C20: the handler runs decode, required-field check, email check, date
\* check, conflict query, insert and mails in this order and stops at the
\* first that fails: a request failing a check is answered with the error of
\* the earliest failing check and makes no store call; the insert happens
\* only after a conflict query that found nothing; a mail is sent only after
\* the insert succeeded; the admin mail only after the user mail.
C20_FirstFailingStepDecides ==
    \A p \in Requests :
        h[p].pc # "idle" =>
            /\ FirstFailure(p) # {""} =>
                  /\ Answered(p)
                  /\ h[p].res.status = 400
                  /\ h[p].res.error \in FirstFailure(p)
                  /\ h[p].queries = 0
            /\ FirstFailure(p) = {""} => h[p].queries = 1
            /\ h[p].inserts <= h[p].queries
            /\ (h[p].conflict \/ h[p].caughtAt = "findOne" \/ h[p].pc = "findOne") =>
                  h[p].inserts = 0
            /\ h[p].conflict => h[p].res = ErrorRes(409, MsgConflict)
            /\ h[p].mails > 0 => (h[p].inserts = 1 /\ h[p].docAt # 0 /\ h[p].caughtAt = "")
            /\ (h[p].caughtAt = "insert" \/ h[p].pc = "insert") => h[p].mails = 0
            /\ (\E m \in DOMAIN outbox : outbox[m].req = p /\ outbox[m].kind = "admin") =>
                  (\E m \in DOMAIN outbox : outbox[m].req = p /\ outbox[m].kind = "user")

\* a payload with no name, a malformed email and a past date answered for
\* the name, and one with a malformed email and a past date answered for the
\* email
C20_Witness ==
    \E p, q \in Requests :
        /\ h[p].body = PlainBody(With(With(BaseForm(Day03), "email", EmailBad), "name", <<>>))
        /\ h[p].res = ErrorRes(400, MsgMissing)
        /\ h[q].body = PlainBody(With(BaseForm(Day03), "email", EmailBad))
        /\ h[q].res = ErrorRes(400, MsgEmail)


-----------------------------------------------------------------------------
(* Properties of acceptance, notification and the store *)

\* insertBooking has resolved for request p
InsertSucceeded(p) == h[p].docAt # 0

\* C21: a response with success: true is sent for a request only after
\* insertBooking resolved for that request, and every request whose
\* insertBooking resolved is answered with success: true, whether the mails
\* were skipped, sent or failed.
C21_SuccessIffInserted ==
    \A p \in Requests :
        /\ h[p].res.success =>
              /\ InsertSucceeded(p)
              /\ h[p].inserts = 1
              /\ h[p].docAt \in DOMAIN store
              /\ store[h[p].docAt] = BookingSchema(InsertData(h[p].formData))
        /\ InsertSucceeded(p) =>
              /\ h[p].pc \in {"mailUser", "mailAdmin", "done"}
              /\ Answered(p) => (h[p].res.success /\ h[p].res.status = 200)

\* two inserted bookings, one answered with the warning after a failed
\* mail, the other answered after both mails went out
C21_Witness ==
    \E p, q \in Requests :
        /\ Answered(p) /\ h[p].res.success /\ h[p].res.warning = MsgMailWarning
        /\ Answered(q) /\ h[q].res.success /\ h[q].res.warning = "" /\ h[q].mails = 2
        /\ InsertSucceeded(p) /\ InsertSucceeded(q)
        /\ Len(store) = 2


\* the positions in the outbox of the mails of request p
MailsOf(p) == {m \in DOMAIN outbox : outbox[m].req = p}

\* C22: with mail credentials configured, a request whose insert succeeded
\* and whose sends both succeeded has exactly two mails in the outbox, first
\* the user confirmation addressed to the submitted email (the stored email
\* up to case and padding), then the admin alert addressed to ADMIN_EMAIL,
\* or to EMAIL_USER when ADMIN_EMAIL is not set; it is answered with
\* success and no warning; and every mail in the outbox belongs to a request
\* whose insert had succeeded.
C22_TwoMailsOnSuccess ==
    /\ \A p \in Requests :
          (env.EMAIL_CREDS /\ Answered(p) /\ InsertSucceeded(p) /\ ~h[p].mailFailed) =>
              /\ Cardinality(MailsOf(p)) = 2
              /\ \E m1, m2 \in MailsOf(p) :
                    /\ m1 < m2
                    /\ outbox[m1].kind = "user"
                    /\ outbox[m1].to = h[p].formData.email
                    /\ Trim(ToLowerCase(outbox[m1].to.v)) = store[h[p].docAt].email.v
                    /\ outbox[m2].kind = "admin"
                    /\ outbox[m2].to.v = IF env.ADMIN_EMAIL # <<>> THEN env.ADMIN_EMAIL
                                         ELSE env.EMAIL_USER
              /\ h[p].res = SuccessRes("", "")
    /\ \A m \in DOMAIN outbox :
          /\ InsertSucceeded(outbox[m].req)
          /\ h[outbox[m].req].docAt \in DOMAIN store

\* with ADMIN_EMAIL set, a booking submitted with an upper-case email,
\* stored, and answered after its two mails
C22_Witness ==
    /\ env.ADMIN_EMAIL = AdminMailbox
    /\ \E p \in Requests :
          /\ Answered(p)
          /\ h[p].res = SuccessRes("", "")
          /\ h[p].formData.email # store[h[p].docAt].email
          /\ Cardinality(MailsOf(p)) = 2
          /\ Len(outbox) = 2


\* C23: no step of the pipeline updates or deletes a record: across every
\* step the store of before is a prefix of the store of after, record for
\* record, and the step adds at most one record.
C23_StoreOnlyGrows ==
    [][/\ Len(store') >= Len(store)
       /\ Len(store') <= Len(store) + 1
       /\ \A i \in DOMAIN store : store'[i] = store[i]]_vars

\* two records of different visitors in the store, the first as it was
\* inserted, both requests answered
C23_Witness ==
    /\ Len(store) = 2
    /\ store[1] # store[2]
    /\ \A p \in Requests : Answered(p) => h[p].inserts = 1
    /\ \E p, q \in Requests :
          /\ Answered(p) /\ h[p].docAt = 1
          /\ Answered(q) /\ h[q].docAt = 2
          /\ store[1] = BookingSchema(InsertData(h[p].formData))


\* C24: the record stored for an accepted request has every field of the
\* request, with the value handed to insertBooking: name, email, phone,
\* state, service, preferredDate, message and the five eligibility fields.
C24_StoredBookingKeepsAllFields ==
    \A p \in Requests :
        InsertSucceeded(p) =>
            \A f \in FieldNames :
                /\ f \in DOMAIN store[h[p].docAt]
                /\ store[h[p].docAt][f] = InsertData(h[p].formData)[f]


-----------------------------------------------------------------------------
(* Properties of the client *)

\* validateForm finds an error in the form as it stands
FormInvalid == DOMAIN validateForm(formData, now, clientTz) # {}

\* C25: while the form has a validation error and no submission is in
\* flight, no step sends a request: the count of fetches and the payload
\* stay as they are, no handler receives a request, isSubmitting stays
\* false, formData is unchanged, and errors either stays or becomes the
\* error map of validateForm.
C25_PreCheckGatesNetwork ==
    [][(~isSubmitting /\ FormInvalid) =>
          /\ fetches' = fetches
          /\ payload' = payload
          /\ ~isSubmitting'
          /\ formData' = formData
          /\ errors' \in {errors, validateForm(formData, now, clientTz)}
          /\ \A p \in Requests : h[p].pc = "idle" => h'[p].pc = "idle"]_vars

\* a form with a malformed name after handleSubmit: the error map is shown,
\* nothing was sent
C25_Witness ==
    /\ formData = With(BaseForm(Day07), "name", NameBad)
    /\ DOMAIN errors = {"name"}
    /\ errors = validateForm(formData, now, clientTz)
    /\ ~isSubmitting
    /\ fetches = 0
    /\ payload = NoPayload
    /\ \A p \in Requests : h[p].pc = "idle"


\* C26: every request the handler has received, whatever the types of its
\* field values, is answered: the handler throws nowhere outside its try
\* blocks and leaves no request without a response.
C26_EveryRequestAnswered ==
    \A p \in Requests :
        /\ h[p].pc \notin {"thrown", "unanswered"}
        /\ (NoneInFlight /\ h[p].pc # "idle") => (Answered(p) /\ h[p].res.status # 0)


\* C27: for every request whose insert succeeded, the email and the
\* preferredDate of its conflict query are those of the record written, and
\* a request with the same body that arrives once that record is in the
\* store does not get past its conflict query.
C27_QueryKeyIsInsertKey ==
    \A p \in Requests :
        InsertSucceeded(p) =>
            /\ ConflictQuery(h[p].formData).email = store[h[p].docAt].email
            /\ ConflictQuery(h[p].formData).preferredDate = store[h[p].docAt].preferredDate
            /\ \A q \in Requests :
                  (h[q].body = h[p].body /\ h[q].pc # "idle" /\ h[q].seen >= h[p].docAt) =>
                      h[q].inserts = 0


\* C28: the admin alert of a request is attempted only once its user
\* confirmation is in the outbox; a request whose user confirmation failed
\* has no mail in the outbox and made one attempt; a failure of either send
\* ends the request with the one warning response; and no mail is sent
\* twice.
C28_AdminAfterUserNoRetry ==
    \A p \in Requests :
        /\ (h[p].pc = "mailAdmin" \/ h[p].mails = 2) =>
              \E m \in MailsOf(p) : outbox[m].kind = "user"
        /\ \A m \in MailsOf(p) :
              outbox[m].kind = "admin" =>
                  \E u \in MailsOf(p) : u < m /\ outbox[u].kind = "user"
        /\ (h[p].mailFailed /\ h[p].mails = 1) => MailsOf(p) = {}
        /\ (h[p].mailFailed /\ h[p].mails = 2) =>
              (Cardinality(MailsOf(p)) = 1 /\ \A m \in MailsOf(p) : outbox[m].kind = "user")
        /\ h[p].mailFailed =>
              /\ Answered(p)
              /\ h[p].res = SuccessRes(MsgMailWarning, "")
        /\ h[p].mails <= 2
        /\ \A m, n \in MailsOf(p) : outbox[m].kind = outbox[n].kind => m = n

\* a request whose user confirmation failed: answered with the warning, no
\* mail of it in the outbox, while the other request's mails went out
C28_Witness ==
    \E p, q \in Requests :
        /\ h[p].mailFailed /\ h[p].mails = 1 /\ Answered(p)
        /\ MailsOf(p) = {}
        /\ h[p].res = NotifyFailedRes
        /\ Answered(q) /\ ~h[q].mailFailed /\ Cardinality(MailsOf(q)) = 2
        /\ Len(outbox) = 2


\* C29: after the visitor picks local calendar day D in the date picker, the
\* preferredDate held in formData names D itself, at every local UTC offset;
\* and when D is today, validateForm reports no error for preferredDate.
C29_PickedDayIsStoredDay ==
    selectedDate.valid =>
        /\ ParseDate(formData.preferredDate.v).valid
        /\ DayNamed(formData.preferredDate.v) = LocalDay(selectedDate.t, clientTz)
        /\ LocalDay(selectedDate.t, clientTz) = LocalDay(now, clientTz) =>
              validateFormMessages(formData, now, clientTz).preferredDate = ""


\* C30: a handleSubmit call that passes validation sets isSubmitting and
\* suspends at its fetch; isSubmitting is true for as long as the call is
\* suspended and false once it has ended, and, the fetch settling, a true
\* isSubmitting is eventually false again; formData changes only when an ok
\* response arrives, to initialFormData, and a fetch that settles in any
\* other way leaves formData as it was.
C30_SubmittingLifecycle ==
    /\ [][fetches' # fetches => (awaiting' /\ isSubmitting')]_vars
    /\ [](isSubmitting <=> awaiting)
    /\ isSubmitting ~> ~isSubmitting
    /\ [][formData' # formData =>
            /\ awaiting /\ ~awaiting'
            /\ h[fetches].pc = "done" /\ ResponseOk(h[fetches].res)
            /\ formData' = initialFormData]_vars
    /\ [][(awaiting /\ ~awaiting') =>
            IF h[fetches].pc = "done" /\ ResponseOk(h[fetches].res) /\ submitMessage' = MsgThanks
            THEN formData' = initialFormData
            ELSE formData' = formData /\ submitMessage' # MsgThanks]_vars

\* a first submission answered with a 500 left the form as it was, the
\* second, of the same form, was answered ok and the form is reset; no
\* submission is pending
C30_Witness ==
    /\ fetches = 2
    /\ h[1].pc = "done" /\ h[1].res.status = 500
    /\ h[2].pc = "done" /\ h[2].res.status = 200
    /\ h[1].body = h[2].body
    /\ submitMessage = MsgThanks
    /\ formData = initialFormData
    /\ ~isSubmitting

=============================================================================
